---- MODULE Spec2Model ----
(***************************************************************************)
(* Voice-query session of the VoiceAssistant component                     *)
(* (src/unnamed/part_001, lines 1-629), modelled as a state machine.       *)
(*                                                                         *)
(* One action is one event-handling turn of the single-threaded UI: the    *)
(* handler, the re-render it schedules and the effects that re-render      *)
(* runs (including a cascading re-render caused by an effect).  State      *)
(* setters of an unmounted component are no-ops; the other side effects    *)
(* of a handler (recognition.stop(), speechSynthesis.speak(), callbacks)   *)
(* are still performed.                                                    *)
(*                                                                         *)
(* Texts are sequences of one-character strings.                           *)
(***************************************************************************)
EXTENDS Integers, Sequences, FiniteSets, TLC

VARIABLES
    mounted,            \* the VoiceAssistant view is mounted
    supported,          \* speechRecognitionSupported (line 107)
    micState,           \* useState<MicState> (line 86)
    selectedLanguage,   \* useState<SupportedLanguage> (line 87)
    interimTranscript,  \* line 94
    finalTranscript,    \* line 95
    voiceResponse,      \* line 96 (lastResponse of the spec)
    textInput,          \* line 97
    showTextInput,      \* line 98
    permissionDenied,   \* line 99
    recognitionRef,     \* line 102: index of the current handle, 0 = null
    handles,            \* the SpeechRecognition objects created by line 114
    timeoutRef,         \* line 104: a timer id, 0 = null
    timers,             \* ids of the pending setTimeout timers
    permPending,        \* pending getUserMedia promises of handleMicClick
    calls,              \* pending processQuery calls (fetch not settled)
    speaking,           \* the utterance speechSynthesis is playing, or Null
    effects,            \* notices, callbacks, fetch and synthesiser calls of
                        \* the last turn, in order
    requested,          \* getUserMedia requests made so far in the session
    dispatched,         \* processQuery calls made so far in the session
    currentState,       \* Index.tsx line 28: the view the page shows
    userProfile,        \* Index.tsx line 30: the submitted profile, or Null
    profile,            \* ProfileSetup form state (lines 662-667)
    uploadedImage,      \* PrescriptionUpload.tsx line 20: 0 = null, else the
                        \* upload whose data URL is shown
    isProcessing,       \* PrescriptionUpload.tsx line 21
    extractedText,      \* PrescriptionUpload.tsx line 22
    simplifiedText,     \* PrescriptionUpload.tsx line 23
    jobs,               \* the uploads of the PrescriptionUpload view, in
                        \* order: each one's reader / analysis position
    toasts              \* the notices the PrescriptionUpload view raised in
                        \* the last turn

\* state of the VoiceAssistant view
voiceViewVars == <<mounted, supported, micState, selectedLanguage,
                   interimTranscript, finalTranscript, voiceResponse,
                   textInput, showTextInput, permissionDenied, recognitionRef,
                   handles, timeoutRef, timers, permPending, calls, effects,
                   requested, dispatched>>

\* the view and the synthesiser
voiceVars == <<voiceViewVars, speaking>>

\* state of the Index page other than the view shown, and of ProfileSetup
profileVars == <<userProfile, profile>>

\* state of the PrescriptionUpload view
uploadVars == <<uploadedImage, isProcessing, extractedText, simplifiedText,
                jobs, toasts>>

vars == <<voiceVars, currentState, profileVars, uploadVars>>

\* null (of voiceResponse, of the synthesiser, of a response body)
Null == [null |-> TRUE]

\* ----------------------------------------------------------------------
\* Bounds of the model
\* ----------------------------------------------------------------------
MaxHandles == 2     \* SpeechRecognition objects created in a session
MaxRequests == 2    \* getUserMedia requests made in a session
MaxQueries == 2     \* processQuery calls made in a session
MaxOps == 3         \* requests, queries and new handles in a session

\* ----------------------------------------------------------------------
\* Program constants and input alphabets
\* ----------------------------------------------------------------------
SupportedLanguages == {"en-US", "hi-IN", "kn-IN"}

MicStates == {"idle", "listening", "processing"}

\* languages the user picks in the model; the app language at mount
InputLanguages == {"en-US", "hi-IN"}
InitialLanguage == "en-US"

EMPTY == << >>
BLANK == <<" ">>
HI == <<"h", "i">>
HI_SP == <<"h", "i", " ">>

\* transcripts the recogniser delivers as interim text
InterimTexts == {EMPTY, <<"h">>}
\* transcripts the recogniser delivers as final text (non-empty strings)
FinalTexts == {BLANK, HI}
\* texts the user types into the text input
TypedTexts == {HI_SP}

\* error codes of SpeechRecognitionErrorEvent
ErrorCodes == {"not-allowed", "no-speech", "network"}

\* ways the fetch of processQuery settles
Outcomes == {"ok", "malformed", "nullBody", "badJson", "httpError", "networkError"}

\* ----------------------------------------------------------------------
\* Text helpers
\* ----------------------------------------------------------------------
RECURSIVE TrimStart(_)
TrimStart(s) ==
    IF s = EMPTY THEN EMPTY
    ELSE IF Head(s) = " " THEN TrimStart(Tail(s)) ELSE s

RECURSIVE TrimEnd(_)
TrimEnd(s) ==
    IF s = EMPTY THEN EMPTY
    ELSE IF s[Len(s)] = " " THEN TrimEnd(SubSeq(s, 1, Len(s) - 1)) ELSE s

\* String.prototype.trim
Trim(s) == TrimEnd(TrimStart(s))

\* String.prototype.includes
Includes(s, sub) ==
    \E i \in 1..(Len(s) - Len(sub) + 1) : SubSeq(s, i, i + Len(sub) - 1) = sub

\* a comparison that keeps the capitals of the utterance
ToLowerCharIdentity(c) == c

\* String.prototype.toLowerCase, on the letters the model uses
ToLowerChar(c) ==
    CASE c = "H" -> "h"
      [] c = "I" -> "i"
      [] c = "B" -> "b"
      [] c = "P" -> "p"
      [] OTHER -> c

ToLowerCase(s) == [i \in 1..Len(s) |-> ToLowerChar(s[i])]

\* ----------------------------------------------------------------------
\* Local fallback responder
\* ----------------------------------------------------------------------
KW_BLOOD_SUGAR == <<"b","l","o","o","d"," ","s","u","g","a","r">>
KW_GLUCOSE == <<"g","l","u","c","o","s","e">>
KW_DIABETES == <<"d","i","a","b","e","t","e","s">>
KW_BLOOD_PRESSURE == <<"b","l","o","o","d"," ","p","r","e","s","s","u","r","e">>
KW_HYPERTENSION == <<"h","y","p","e","r","t","e","n","s","i","o","n">>
KW_MEDICATION == <<"m","e","d","i","c","a","t","i","o","n">>
KW_MEDICINE == <<"m","e","d","i","c","i","n","e">>
\* a keyword written with a capital, which no lowercased input contains
KW_HELLO_CAPITAL == <<"H","e","l","l","o">>

KW_HELLO == <<"h","e","l","l","o">>
KW_HI == <<"h","i">>
KW_NAMASTE == <<"n","a","m","a","s","t","e">>

\* a switch without the default branch: undefined for en-US
getLocalizedTextNoDefault(lang, en, hi, kn) ==
    CASE lang = "hi-IN" -> hi
      [] lang = "kn-IN" -> kn
      [] OTHER -> [tpl |-> "undefined", loc |-> "", arg |-> << >>]

getLocalizedText(lang, en, hi, kn) ==
    CASE lang = "hi-IN" -> hi
      [] lang = "kn-IN" -> kn
      [] OTHER -> en

\* A text built from a template literal: which template, which of its
\* three translations, and the values it interpolates.
Template(tpl, loc, arg) == [tpl |-> tpl, loc |-> loc, arg |-> arg]

Localized(lang, tpl, arg) ==
    getLocalizedText(lang, Template(tpl, "en", arg), Template(tpl, "hi", arg),
                     Template(tpl, "kn", arg))

\* mockUserProfile (lines 68-73) and mockRecentReports (lines 75-79)
MockUserProfile ==
    [name |-> "John Doe", medications |-> <<"Metformin", "Lisinopril">>]

MockRecentReports ==
    <<[type |-> "Blood Sugar", value |-> "145 mg/dL", date |-> "2024-01-15",
       status |-> "elevated"],
      [type |-> "Blood Pressure", value |-> "138/88", date |-> "2024-01-14",
       status |-> "high"],
      [type |-> "HbA1c", value |-> "7.2%", date |-> "2024-01-10",
       status |-> "needs_improvement"]>>

\* what `${r?.value}` and the like interpolate when find() returned
\* undefined
NoReport ==
    [type |-> "undefined", value |-> "undefined", date |-> "undefined",
     status |-> "undefined"]

\* a lookup that takes the last report of the list
FindLastReport(reports, type) == reports[Len(reports)]

\* Array.prototype.find(r => r.type === type)
FindReport(reports, type) ==
    IF \E i \in DOMAIN reports : reports[i].type = type
    THEN reports[CHOOSE i \in DOMAIN reports :
                    /\ reports[i].type = type
                    /\ \A j \in 1..(i - 1) : reports[j].type # type]
    ELSE NoReport

\* Array.prototype.join: the pieces of the joined string
RECURSIVE Join(_, _)
Join(seq, sep) ==
    IF seq = << >> THEN << >>
    ELSE IF Len(seq) = 1 THEN seq
    ELSE <<Head(seq), sep>> \o Join(Tail(seq), sep)

\* The arg of an answer text is the sequence of the values its template
\* interpolates (for the default answer: the characters of the query).
generateMockResponse(query, lang) ==
    LET input == ToLowerCase(query)
        topic ==
            IF Includes(input, KW_BLOOD_SUGAR) \/ Includes(input, KW_GLUCOSE)
               \/ Includes(input, KW_DIABETES) THEN "glucose"
            ELSE IF Includes(input, KW_BLOOD_PRESSURE)
                    \/ Includes(input, KW_HYPERTENSION) THEN "pressure"
            ELSE IF Includes(input, KW_MEDICATION)
                    \/ Includes(input, KW_MEDICINE) THEN "medication"
            ELSE IF Includes(input, KW_HELLO) \/ Includes(input, KW_HI)
                    \/ Includes(input, KW_NAMASTE) THEN "greeting"
            ELSE "default"
        latestBG == FindReport(MockRecentReports, "Blood Sugar")
        latestBP == FindReport(MockRecentReports, "Blood Pressure")
        meds == MockUserProfile.medications
        answerText ==
            CASE topic = "glucose" ->
                    Localized(lang, topic, <<latestBG.value, latestBG.date,
                                             latestBG.status>>)
              [] topic = "pressure" ->
                    Localized(lang, topic, <<latestBP.value, latestBP.status>>)
              [] topic = "medication" ->
                    getLocalizedText(lang,
                        Template(topic, "en", Join(meds, " and ")),
                        Template(topic, "hi", Join(meds, " aur ")),
                        Template(topic, "kn", Join(meds, " mattu ")))
              [] topic = "greeting" ->
                    Localized(lang, topic, <<MockUserProfile.name>>)
              [] OTHER -> Localized(lang, topic, query)
        actions ==
            CASE topic = "glucose" -> <<"reminder", "appointment">>
              [] topic = "pressure" -> <<"grocery">>
              [] topic = "medication" -> <<"reminder">>
              [] OTHER -> << >>
    IN  [answer_text |-> answerText,
         disclaimer |-> Localized(lang, "disclaimer", EMPTY),
         actions |-> actions]

\* The body of a successful remote reply (response.json()).  The server
\* chooses it: here a well-formed answer suggesting one action, a malformed
\* body that lacks answer_text, or null.
Undefined == Template("undefined", "", EMPTY)

RemoteBody(outcome, query, lang) ==
    CASE outcome = "ok" ->
            [answer_text |-> Template("remote", lang, query),
             disclaimer |-> Template("remote", lang, EMPTY),
             actions |-> <<"note">>]
      [] outcome = "malformed" ->
            [answer_text |-> Undefined, disclaimer |-> Undefined,
             actions |-> << >>]
      [] OTHER -> Null

\* ----------------------------------------------------------------------
\* SpeechRecognition handles
\* ----------------------------------------------------------------------
HandleIds == 1..MaxHandles

\* "inactive": not started, or ended.  "starting": start() called, start
\* event not yet delivered.  "running": start event delivered.
\* "stopStarting"/"stopping": stop() requested before/after the start
\* event.  "errored": error event delivered, end event still to come.
HandleStates == {"inactive", "starting", "running", "stopStarting",
                 "stopping", "errored"}

\* started and not yet ended
Active(h) == handles[h].st # "inactive"

ActiveHandles == {h \in HandleIds : Active(h)}

\* a stop() that ends the capture at once
StopHandleEnded(hs, h) ==
    IF h = 0 THEN hs ELSE [hs EXCEPT ![h].st = "inactive"]

\* recognition.stop() on handle h of hs (h = 0: the ref is null)
StopHandle(hs, h) ==
    IF h = 0 THEN hs
    ELSE [hs EXCEPT ![h].st =
            CASE @ = "starting" -> "stopStarting"
              [] @ = "running" -> "stopping"
              [] OTHER -> @]

\* ----------------------------------------------------------------------
\* Silence auto-stop effect (deps: micState, interimTranscript)
\* ----------------------------------------------------------------------
\* setTimeout returns an id no live reference holds
FreshTimer(ref, tms) ==
    CHOOSE t \in 1..(Cardinality(tms) + 2) :
        /\ t \notin tms /\ t # ref
        /\ \A u \in 1..(t - 1) : u \in tms \/ u = ref

\* a cleanup that leaves the timer running
SilenceCleanupLeak(ref, tms) == [ref |-> ref, tms |-> tms]

\* the effect's cleanup function (lines 213-217)
SilenceCleanup(ref, tms) ==
    [ref |-> ref,
     tms |-> IF ref # 0 THEN tms \ {ref} ELSE tms]

\* the effect's body, run after the cleanup of the previous run
SilenceBody(ms, it, ref, tms) ==
    IF ms = "listening" /\ it = EMPTY
    THEN LET cleared == IF ref # 0 THEN tms \ {ref} ELSE tms
             t == FreshTimer(ref, cleared)
         IN  [ref |-> t, tms |-> cleared \cup {t}]
    ELSE IF ref # 0
         THEN [ref |-> 0, tms |-> tms \ {ref}]
         ELSE [ref |-> ref, tms |-> tms]

\* a re-render from deps <<ms0, it0>> to deps <<ms1, it1>>
SilenceEffect(ms0, it0, ms1, it1, ref, tms) ==
    IF <<ms0, it0>> = <<ms1, it1>>
    THEN [ref |-> ref, tms |-> tms]
    ELSE LET c == SilenceCleanup(ref, tms)
         IN  SilenceBody(ms1, it1, c.ref, c.tms)

\* ----------------------------------------------------------------------
\* The page around the view (src/src/pages/Index.tsx) and its other views
\* ----------------------------------------------------------------------
\* type AppState
AppStates == {"language", "profile", "dashboard", "scan", "upload",
              "medicines", "reminders", "wellness", "progress", "voice"}

\* the sections the Dashboard's cards and its voice button navigate to
FeatureViews == {"scan", "upload", "medicines", "reminders", "wellness",
                 "progress", "voice"}

\* the keys of the three gender buttons of ProfileSetup
GenderKeys == {"Male", "Female", "Other"}

\* two of the eight health-condition checkboxes of ProfileSetup
ConditionIds == {"diabetes", "hypertension"}

\* the form of ProfileSetup when it mounts
EmptyProfile ==
    [name |-> << >>, age |-> << >>, gender |-> "",
     healthConditions |-> << >>]

\* a profile submitted before the voice view was opened
SessionProfile ==
    [name |-> <<"A">>, age |-> <<"7">>, gender |-> "Other",
     healthConditions |-> << >>]

\* the page while it shows the VoiceAssistant view
VoiceViewShown ==
    /\ currentState = "voice"
    /\ userProfile = SessionProfile
    /\ profile = EmptyProfile

\* useState('') of extractedText and simplifiedText: a text is tagged with
\* the upload whose analysis produced it
NoText == [upload |-> 0, text |-> ""]

\* the PrescriptionUpload view when it mounts
UploadInit ==
    /\ uploadedImage = 0
    /\ isProcessing = FALSE
    /\ extractedText = NoText
    /\ simplifiedText = NoText
    /\ jobs = << >>
    /\ toasts = << >>

\* ----------------------------------------------------------------------
\* Initial state: the view has just mounted
\* ----------------------------------------------------------------------
Init ==
    /\ mounted = TRUE
    /\ supported \in BOOLEAN
    /\ micState = "idle"
    /\ selectedLanguage = InitialLanguage
    /\ interimTranscript = EMPTY
    /\ finalTranscript = EMPTY
    /\ voiceResponse = Null
    /\ textInput = EMPTY
    /\ showTextInput = FALSE
    /\ permissionDenied = FALSE
    /\ recognitionRef = IF supported THEN 1 ELSE 0
    /\ handles = [h \in HandleIds |->
                    [lang |-> selectedLanguage, st |-> "inactive"]]
    /\ timeoutRef = 0
    /\ timers = {}
    /\ permPending = << >>
    /\ calls = << >>
    /\ speaking = Null
    /\ effects = << >>
    /\ requested = 0
    /\ dispatched = 0
    /\ VoiceViewShown
    /\ UploadInit

\* ----------------------------------------------------------------------
\* Helpers shared by the handlers
\* ----------------------------------------------------------------------
RemoveAt(seq, i) == SubSeq(seq, 1, i - 1) \o SubSeq(seq, i + 1, Len(seq))

\* what the session has started so far: getUserMedia requests, queries,
\* and SpeechRecognition objects beyond the first
SessionOps ==
    requested + dispatched + (IF recognitionRef = 0 THEN 0
                              ELSE recognitionRef - 1)

\* a mic Button that is never disabled
MicButtonAlwaysEnabled == TRUE

\* a mic Button disabled by the denial only
MicButtonEnabledUnlessDenied == ~permissionDenied

\* the mic Button is rendered enabled (line 488)
MicButtonEnabled == ~(micState = "processing" \/ permissionDenied)

\* the closure of a processQuery call: its query, the selectedLanguage of
\* the render that made the call, the call site, and which call of the
\* session it is
QueryCall(query, lang, via) ==
    [query |-> query, lang |-> lang, via |-> via, seq |-> dispatched + 1]

\* a processQuery that forgets to announce the Processing phase
DispatchedMicStateStale(ms) == ms

\* first statement of processQuery (line 267): micState after the call
DispatchedMicState(ms) == "processing"

\* an utterance without a language tag
UtteranceUntagged(text, lang) == [text |-> text, lang |-> ""]

\* the utterance speakResponse hands to the synthesiser
Utterance(text, lang) == [text |-> text, lang |-> lang]

\* ----------------------------------------------------------------------
\* handleMicClick (lines 235-264)
\* ----------------------------------------------------------------------
\* capture unsupported: notice and text fallback
MicClickUnsupported ==
    /\ mounted /\ MicButtonEnabled
    /\ ~supported
    /\ showTextInput' = TRUE
    /\ effects' = <<"toast:Not Supported">>
    /\ UNCHANGED <<mounted, supported, micState, selectedLanguage,
                   interimTranscript, finalTranscript, voiceResponse,
                   textInput, permissionDenied, recognitionRef, handles,
                   timeoutRef, timers, permPending, calls, speaking,
                   requested, dispatched>>
    /\ UNCHANGED <<currentState, profileVars, uploadVars>>

\* listening: request the capture to stop
MicClickStop ==
    /\ mounted /\ MicButtonEnabled
    /\ supported
    /\ micState = "listening"
    /\ handles' = StopHandle(handles, recognitionRef)
    /\ effects' = << >>
    /\ UNCHANGED <<mounted, supported, micState, selectedLanguage,
                   interimTranscript, finalTranscript, voiceResponse,
                   textInput, showTextInput, permissionDenied, recognitionRef,
                   timeoutRef, timers, permPending, calls, speaking,
                   requested, dispatched>>
    /\ UNCHANGED <<currentState, profileVars, uploadVars>>

\* idle: ask for the microphone; the continuation keeps the language of
\* this render
MicClickStart ==
    /\ mounted /\ MicButtonEnabled
    /\ supported
    /\ micState = "idle"
    /\ requested < MaxRequests /\ SessionOps < MaxOps
    /\ requested' = requested + 1
    /\ permPending' = Append(permPending, selectedLanguage)
    /\ effects' = << >>
    /\ UNCHANGED <<mounted, supported, micState, selectedLanguage,
                   interimTranscript, finalTranscript, voiceResponse,
                   textInput, showTextInput, permissionDenied, recognitionRef,
                   handles, timeoutRef, timers, calls, speaking,
                   dispatched>>
    /\ UNCHANGED <<currentState, profileVars, uploadVars>>

\* getUserMedia resolved: lines 223, 260-263.  start() on a handle that is
\* already started throws InvalidStateError (after lang was assigned).
PermissionGranted(i) ==
    /\ i \in DOMAIN permPending
    /\ permPending' = RemoveAt(permPending, i)
    /\ IF recognitionRef = 0
       THEN /\ handles' = handles
            /\ effects' = << >>
       ELSE IF handles[recognitionRef].st = "inactive"
       THEN /\ handles' = [handles EXCEPT ![recognitionRef] =
                              [lang |-> permPending[i], st |-> "starting"]]
            /\ effects' = << >>
       ELSE /\ handles' = [handles EXCEPT
                              ![recognitionRef].lang = permPending[i]]
            /\ effects' = <<"start:InvalidStateError">>
    /\ UNCHANGED <<mounted, supported, micState, selectedLanguage,
                   interimTranscript, finalTranscript, voiceResponse,
                   textInput, showTextInput, permissionDenied, recognitionRef,
                   timeoutRef, timers, calls, speaking,
                   requested, dispatched>>
    /\ UNCHANGED <<currentState, profileVars, uploadVars>>

\* a catch block that only shows the notice
RejectedPermissionDeniedKept(pd) == pd

\* setPermissionDenied(true) of the catch block (line 225)
RejectedPermissionDenied(pd) == TRUE

\* getUserMedia rejected: lines 224-232
PermissionRejected(i) ==
    /\ i \in DOMAIN permPending
    /\ permPending' = RemoveAt(permPending, i)
    /\ permissionDenied' = IF mounted
                           THEN RejectedPermissionDenied(permissionDenied)
                           ELSE permissionDenied
    /\ effects' = <<"toast:Microphone Access Required">>
    /\ UNCHANGED <<mounted, supported, micState, selectedLanguage,
                   interimTranscript, finalTranscript, voiceResponse,
                   textInput, showTextInput, recognitionRef, handles,
                   timeoutRef, timers, calls, speaking,
                   requested, dispatched>>
    /\ UNCHANGED <<currentState, profileVars, uploadVars>>

\* ----------------------------------------------------------------------
\* Callbacks of a SpeechRecognition handle (lines 121-179)
\* ----------------------------------------------------------------------
\* recognition.onstart
OnStart(h) ==
    /\ h \in HandleIds
    /\ handles[h].st \in {"starting", "stopStarting"}
    /\ handles' = [handles EXCEPT ![h].st =
                      IF @ = "starting" THEN "running" ELSE "stopping"]
    /\ IF mounted
       THEN LET s == SilenceEffect(micState, interimTranscript,
                                   "listening", EMPTY, timeoutRef, timers)
            IN  /\ micState' = "listening"
                /\ interimTranscript' = EMPTY
                /\ permissionDenied' = FALSE
                /\ timeoutRef' = s.ref
                /\ timers' = s.tms
                /\ effects' = << >>
       ELSE /\ effects' = << >>
            /\ UNCHANGED <<micState, interimTranscript, permissionDenied,
                           timeoutRef, timers>>
    /\ UNCHANGED <<mounted, supported, selectedLanguage, finalTranscript,
                   voiceResponse, textInput, showTextInput, recognitionRef,
                   permPending, calls, speaking,
                   requested, dispatched>>
    /\ UNCHANGED <<currentState, profileVars, uploadVars>>

\* recognition.onresult with no final text: lines 128-140
OnInterimResult(h, interim) ==
    /\ h \in HandleIds
    /\ handles[h].st \in {"running", "stopping"}
    /\ interim \in InterimTexts
    /\ IF mounted
       THEN LET s == SilenceEffect(micState, interimTranscript,
                                   micState, interim, timeoutRef, timers)
            IN  /\ interimTranscript' = interim
                /\ timeoutRef' = s.ref
                /\ timers' = s.tms
                /\ effects' = << >>
       ELSE /\ effects' = << >>
            /\ UNCHANGED <<interimTranscript, timeoutRef, timers>>
    /\ UNCHANGED <<mounted, supported, micState, selectedLanguage,
                   finalTranscript, voiceResponse, textInput, showTextInput,
                   permissionDenied, recognitionRef, handles, permPending,
                   calls, speaking,
                   requested, dispatched>>
    /\ UNCHANGED <<currentState, profileVars, uploadVars>>

\* recognition.onresult with final text (lines 128-145), the re-render and
\* the finalTranscript effect (lines 191-197) with the processQuery call it
\* makes (lines 266-271) and the re-render that call causes
OnFinalResult(h, final) ==
    /\ h \in HandleIds
    /\ handles[h].st \in {"running", "stopping"}
    /\ final \in FinalTexts
    /\ handles' = StopHandle(handles, h)
    /\ IF mounted
       THEN LET changed == final # finalTranscript
                dispatch == changed /\ Trim(final) # EMPTY
                s1 == SilenceEffect(micState, interimTranscript,
                                    micState, EMPTY, timeoutRef, timers)
                ms2 == IF dispatch THEN DispatchedMicState(micState)
                       ELSE micState
                s2 == SilenceEffect(micState, EMPTY, ms2, EMPTY,
                                    s1.ref, s1.tms)
            IN  /\ dispatch => (dispatched < MaxQueries /\ SessionOps < MaxOps)
                /\ dispatched' = IF dispatch THEN dispatched + 1
                                  ELSE dispatched
                /\ interimTranscript' = EMPTY
                /\ finalTranscript' = IF dispatch THEN EMPTY ELSE final
                /\ micState' = ms2
                /\ calls' = IF dispatch
                            THEN Append(calls, QueryCall(final,
                                            selectedLanguage, "speech"))
                            ELSE calls
                /\ timeoutRef' = s2.ref
                /\ timers' = s2.tms
                /\ effects' = IF dispatch
                              THEN <<"onTranscriptReady", "fetch">>
                              ELSE << >>
       ELSE /\ effects' = << >>
            /\ UNCHANGED <<interimTranscript, finalTranscript, micState,
                           calls, timeoutRef, timers, dispatched>>
    /\ UNCHANGED <<mounted, supported, selectedLanguage, voiceResponse,
                   textInput, showTextInput, permissionDenied, recognitionRef,
                   permPending, speaking,
                   requested>>
    /\ UNCHANGED <<currentState, profileVars, uploadVars>>

\* recognition.onerror
OnError(h, code) ==
    /\ h \in HandleIds
    /\ handles[h].st \in {"starting", "running", "stopStarting", "stopping"}
    /\ code \in ErrorCodes
    /\ handles' = [handles EXCEPT ![h].st = "errored"]
    /\ LET notice == CASE code = "not-allowed" ->
                            <<"toast:Microphone Access Denied">>
                       [] code = "no-speech" -> <<"toast:No Speech Detected">>
                       [] OTHER -> <<"toast:Speech Recognition Error">>
       IN  IF mounted
           THEN LET s == SilenceEffect(micState, interimTranscript,
                                       "idle", EMPTY, timeoutRef, timers)
                IN  /\ permissionDenied' = IF code = "not-allowed"
                                           THEN TRUE ELSE permissionDenied
                    /\ micState' = "idle"
                    /\ interimTranscript' = EMPTY
                    /\ timeoutRef' = s.ref
                    /\ timers' = s.tms
                    /\ effects' = notice
           ELSE /\ effects' = notice
                /\ UNCHANGED <<permissionDenied, micState, interimTranscript,
                               timeoutRef, timers>>
    /\ UNCHANGED <<mounted, supported, selectedLanguage, finalTranscript,
                   voiceResponse, textInput, showTextInput, recognitionRef,
                   permPending, calls, speaking,
                   requested, dispatched>>
    /\ UNCHANGED <<currentState, profileVars, uploadVars>>

\* recognition.onend
OnEnd(h) ==
    /\ h \in HandleIds
    /\ handles[h].st # "inactive"
    /\ handles' = [handles EXCEPT ![h].st = "inactive"]
    /\ IF mounted
       THEN LET s == SilenceEffect(micState, interimTranscript,
                                   "idle", EMPTY, timeoutRef, timers)
            IN  /\ micState' = "idle"
                /\ interimTranscript' = EMPTY
                /\ timeoutRef' = s.ref
                /\ timers' = s.tms
                /\ effects' = << >>
       ELSE /\ effects' = << >>
            /\ UNCHANGED <<micState, interimTranscript, timeoutRef, timers>>
    /\ UNCHANGED <<mounted, supported, selectedLanguage, finalTranscript,
                   voiceResponse, textInput, showTextInput, permissionDenied,
                   recognitionRef, permPending, calls, speaking,
                   requested, dispatched>>
    /\ UNCHANGED <<currentState, profileVars, uploadVars>>

\* ----------------------------------------------------------------------
\* Silence timer callback (lines 203-207)
\* ----------------------------------------------------------------------
\* The callback tests the micState of the render that armed it, and a
\* timer is armed only by a render whose micState is 'listening'.
TimerFire(t) ==
    /\ t \in timers
    /\ timers' = timers \ {t}
    /\ handles' = StopHandle(handles, recognitionRef)
    /\ effects' = << >>
    /\ UNCHANGED <<mounted, supported, micState, selectedLanguage,
                   interimTranscript, finalTranscript, voiceResponse,
                   textInput, showTextInput, permissionDenied, recognitionRef,
                   timeoutRef, permPending, calls, speaking,
                   requested, dispatched>>
    /\ UNCHANGED <<currentState, profileVars, uploadVars>>

\* ----------------------------------------------------------------------
\* Language selector (line 472) and the recognition effect it re-runs
\* (cleanup lines 183-187, body lines 110-181)
\* ----------------------------------------------------------------------
SelectLanguage(lang) ==
    /\ mounted
    /\ lang \in InputLanguages
    /\ lang # selectedLanguage
    /\ selectedLanguage' = lang
    /\ IF supported
       THEN /\ recognitionRef < MaxHandles /\ SessionOps < MaxOps
            /\ handles' = [StopHandle(handles, recognitionRef) EXCEPT
                              ![recognitionRef + 1] =
                                  [lang |-> lang, st |-> "inactive"]]
            /\ recognitionRef' = recognitionRef + 1
            /\ effects' = << >>
       ELSE /\ effects' = << >>
            /\ UNCHANGED <<handles, recognitionRef>>
    /\ UNCHANGED <<mounted, supported, micState, interimTranscript,
                   finalTranscript, voiceResponse, textInput, showTextInput,
                   permissionDenied, timeoutRef, timers, permPending, calls,
                   speaking,
                   requested, dispatched>>
    /\ UNCHANGED <<currentState, profileVars, uploadVars>>

\* ----------------------------------------------------------------------
\* Text entry (lines 395-401, 526-565)
\* ----------------------------------------------------------------------
\* "Type instead" button
OpenTextInput ==
    /\ mounted
    /\ ~showTextInput
    /\ showTextInput' = TRUE
    /\ effects' = << >>
    /\ UNCHANGED <<mounted, supported, micState, selectedLanguage,
                   interimTranscript, finalTranscript, voiceResponse,
                   textInput, permissionDenied, recognitionRef, handles,
                   timeoutRef, timers, permPending, calls, speaking,
                   requested, dispatched>>
    /\ UNCHANGED <<currentState, profileVars, uploadVars>>

\* Input onChange
ChangeText(text) ==
    /\ mounted
    /\ showTextInput
    /\ text \in TypedTexts
    /\ textInput' = text
    /\ effects' = << >>
    /\ UNCHANGED <<mounted, supported, micState, selectedLanguage,
                   interimTranscript, finalTranscript, voiceResponse,
                   showTextInput, permissionDenied, recognitionRef, handles,
                   timeoutRef, timers, permPending, calls, speaking,
                   requested, dispatched>>
    /\ UNCHANGED <<currentState, profileVars, uploadVars>>

\* Cancel button
CancelText ==
    /\ mounted
    /\ showTextInput
    /\ showTextInput' = FALSE
    /\ textInput' = EMPTY
    /\ effects' = << >>
    /\ UNCHANGED <<mounted, supported, micState, selectedLanguage,
                   interimTranscript, finalTranscript, voiceResponse,
                   permissionDenied, recognitionRef, handles, timeoutRef,
                   timers, permPending, calls, speaking,
                   requested, dispatched>>
    /\ UNCHANGED <<currentState, profileVars, uploadVars>>

\* handleTextSubmit with the processQuery call it makes and the re-render
handleTextSubmit ==
    IF Trim(textInput) # EMPTY
    THEN LET s == SilenceEffect(micState, interimTranscript,
                                DispatchedMicState(micState),
                                interimTranscript, timeoutRef, timers)
         IN  /\ dispatched < MaxQueries /\ SessionOps < MaxOps
             /\ dispatched' = dispatched + 1
             /\ calls' = Append(calls, QueryCall(Trim(textInput),
                                                 selectedLanguage, "text"))
             /\ micState' = DispatchedMicState(micState)
             /\ textInput' = EMPTY
             /\ showTextInput' = FALSE
             /\ timeoutRef' = s.ref
             /\ timers' = s.tms
             /\ effects' = <<"fetch">>
    ELSE /\ effects' = << >>
         /\ UNCHANGED <<calls, micState, textInput, showTextInput,
                        timeoutRef, timers, dispatched>>

\* Enter key in the text input (line 544)
PressEnter ==
    /\ mounted
    /\ showTextInput
    /\ handleTextSubmit
    /\ UNCHANGED <<mounted, supported, selectedLanguage, interimTranscript,
                   finalTranscript, voiceResponse, permissionDenied,
                   recognitionRef, handles, permPending, speaking,
                   requested>>
    /\ UNCHANGED <<currentState, profileVars, uploadVars>>

\* Send button (lines 548-553)
ClickSend ==
    /\ mounted
    /\ showTextInput
    /\ ~(Trim(textInput) = EMPTY \/ micState = "processing")
    /\ handleTextSubmit
    /\ UNCHANGED <<mounted, supported, selectedLanguage, interimTranscript,
                   finalTranscript, voiceResponse, permissionDenied,
                   recognitionRef, handles, permPending, speaking,
                   requested>>
    /\ UNCHANGED <<currentState, profileVars, uploadVars>>

\* ----------------------------------------------------------------------
\* Continuation of processQuery after the fetch settles (lines 284-306)
\* ----------------------------------------------------------------------
\* the answer the continuation ends up with
SettledResponse(call, outcome) ==
    IF outcome \in {"ok", "malformed"}
    THEN RemoteBody(outcome, call.query, call.lang)
    ELSE generateMockResponse(call.query, call.lang)

\* the side effects of the continuation, in order
SettleEffects(outcome) ==
    (IF outcome \in {"ok", "malformed"}
     THEN <<"setVoiceResponse:remote", "onVoiceAnswer">>
     ELSE IF outcome = "nullBody"
     THEN <<"setVoiceResponse:remote", "onVoiceAnswer",
            "setVoiceResponse:mock", "onVoiceAnswer">>
     ELSE <<"setVoiceResponse:mock", "onVoiceAnswer">>)
    \o <<"cancel", "speak">>

\* a continuation that returns to idle only after a remote answer
SettledMicStateNoFinally(ms, outcome) ==
    IF outcome \in {"ok", "malformed"} THEN "idle" ELSE ms

\* the finally block (lines 304-306): micState after the continuation
SettledMicState(ms, outcome) == "idle"

Settle(i, outcome) ==
    /\ i \in DOMAIN calls
    /\ outcome \in Outcomes
    /\ calls' = RemoveAt(calls, i)
    /\ LET resp == SettledResponse(calls[i], outcome)
       IN  /\ speaking' = Utterance(resp.answer_text, calls[i].lang)
           /\ IF mounted
              THEN LET s == SilenceEffect(micState, interimTranscript,
                                          SettledMicState(micState, outcome),
                                          interimTranscript,
                                          timeoutRef, timers)
                   IN  /\ voiceResponse' = resp
                       /\ micState' = SettledMicState(micState, outcome)
                       /\ timeoutRef' = s.ref
                       /\ timers' = s.tms
                       /\ effects' = SettleEffects(outcome)
              ELSE /\ effects' = SettleEffects(outcome)
                   /\ UNCHANGED <<voiceResponse, micState, timeoutRef,
                                  timers>>
    /\ UNCHANGED <<mounted, supported, selectedLanguage, interimTranscript,
                   finalTranscript, textInput, showTextInput,
                   permissionDenied, recognitionRef, handles, permPending,
                   requested, dispatched>>
    /\ UNCHANGED <<currentState, profileVars, uploadVars>>

\* ----------------------------------------------------------------------
\* Answer card (lines 569-618), playback, teardown
\* ----------------------------------------------------------------------
\* Replay button
Replay ==
    /\ mounted
    /\ voiceResponse # Null
    /\ speaking' = Utterance(voiceResponse.answer_text, selectedLanguage)
    /\ effects' = <<"cancel", "speak">>
    /\ UNCHANGED <<mounted, supported, micState, selectedLanguage,
                   interimTranscript, finalTranscript, voiceResponse,
                   textInput, showTextInput, permissionDenied, recognitionRef,
                   handles, timeoutRef, timers, permPending, calls,
                   requested, dispatched>>
    /\ UNCHANGED <<currentState, profileVars, uploadVars>>

\* a handler that acknowledges nothing
ActionNoticeSilent(type) == << >>

\* the switch of handleActionClick: the notice shown for an action type
ActionNotice(type) ==
    CASE type = "grocery" -> <<"toast:Added to Grocery List">>
      [] type = "reminder" -> <<"toast:Reminder Set">>
      [] type = "note" -> <<"toast:Note Saved">>
      [] type = "appointment" -> <<"toast:Appointment">>
      [] OTHER -> << >>

\* handleActionClick on the k-th suggested action
ActionClick(k) ==
    /\ mounted
    /\ voiceResponse # Null
    /\ k \in DOMAIN voiceResponse.actions
    /\ effects' = ActionNotice(voiceResponse.actions[k])
    /\ UNCHANGED <<mounted, supported, micState, selectedLanguage,
                   interimTranscript, finalTranscript, voiceResponse,
                   textInput, showTextInput, permissionDenied, recognitionRef,
                   handles, timeoutRef, timers, permPending, calls, speaking,
                   requested, dispatched>>
    /\ UNCHANGED <<currentState, profileVars, uploadVars>>

\* the synthesiser finishes the utterance
PlaybackEnd ==
    /\ speaking # Null
    /\ speaking' = Null
    /\ effects' = << >>
    /\ UNCHANGED <<mounted, supported, micState, selectedLanguage,
                   interimTranscript, finalTranscript, voiceResponse,
                   textInput, showTextInput, permissionDenied, recognitionRef,
                   handles, timeoutRef, timers, permPending, calls,
                   requested, dispatched>>
    /\ UNCHANGED <<currentState, profileVars, uploadVars>>

\* Back button: Index.handleBack leaves the voice view; the cleanups of the
\* recognition effect and of the silence effect run, and Index cancels
\* speech playback (Index.tsx lines 33-37)
Unmount ==
    /\ mounted
    /\ mounted' = FALSE
    /\ handles' = StopHandle(handles, recognitionRef)
    /\ timers' = SilenceCleanup(timeoutRef, timers).tms
    /\ speaking' = Null
    /\ effects' = <<"cancel">>
    /\ UNCHANGED <<supported, micState, selectedLanguage, interimTranscript,
                   finalTranscript, voiceResponse, textInput, showTextInput,
                   permissionDenied, recognitionRef, timeoutRef, permPending,
                   calls,
                   requested, dispatched>>
    /\ currentState' = "dashboard"
    /\ UNCHANGED <<profileVars, uploadVars>>

\* ----------------------------------------------------------------------
Next ==
    \/ MicClickUnsupported
    \/ MicClickStop
    \/ MicClickStart
    \/ \E i \in 1..MaxRequests : PermissionGranted(i)
    \/ \E i \in 1..MaxRequests : PermissionRejected(i)
    \/ \E h \in HandleIds : OnStart(h)
    \/ \E h \in HandleIds, t \in InterimTexts : OnInterimResult(h, t)
    \/ \E h \in HandleIds, t \in FinalTexts : OnFinalResult(h, t)
    \/ \E h \in HandleIds, c \in ErrorCodes : OnError(h, c)
    \/ \E h \in HandleIds : OnEnd(h)
    \/ \E t \in timers : TimerFire(t)
    \/ \E l \in InputLanguages : SelectLanguage(l)
    \/ OpenTextInput
    \/ \E t \in TypedTexts : ChangeText(t)
    \/ CancelText
    \/ PressEnter
    \/ ClickSend
    \/ \E i \in 1..MaxQueries, o \in Outcomes : Settle(i, o)
    \/ Replay
    \/ \E k \in 1..2 : ActionClick(k)
    \/ PlaybackEnd
    \/ Unmount

Spec == Init /\ [][Next]_vars

TypeOK ==
    /\ mounted \in BOOLEAN
    /\ supported \in BOOLEAN
    /\ micState \in MicStates
    /\ selectedLanguage \in InputLanguages
    /\ permissionDenied \in BOOLEAN
    /\ showTextInput \in BOOLEAN
    /\ recognitionRef \in 0..MaxHandles
    /\ \A h \in HandleIds : handles[h].st \in HandleStates
    /\ Len(permPending) <= requested /\ requested <= MaxRequests
    /\ Len(calls) <= dispatched /\ dispatched <= MaxQueries

\* ----------------------------------------------------------------------
\* Properties
\* ----------------------------------------------------------------------
Contains(seq, x) == \E i \in DOMAIN seq : seq[i] = x

\* C1: while the session is mounted, micState = Processing implies that
\* speech capture is inactive (every handle has ended or has at least been
\* asked to stop) and that a responder call is outstanding.
C1_ProcessingInactiveAndOutstanding ==
    (mounted /\ micState = "processing")
        => (/\ \A h \in HandleIds :
                  handles[h].st \notin {"starting", "running"}
            /\ calls # << >>)

\* C2: while the session is mounted, micState = Listening implies that a
\* capture handle is active and that permissionDenied is false.
C2_ListeningActiveAndPermitted ==
    (mounted /\ micState = "listening")
        => (ActiveHandles # {} /\ ~permissionDenied)

\* C3: while the only outstanding responder calls are those dispatched for a
\* final result, and none of them settles in the step, micState stays
\* Processing (in particular the capture's end event does not make it Idle).
C3_ProcessingUntilSettled ==
    [][(/\ mounted /\ micState = "processing"
        /\ calls # << >>
        /\ \A i \in DOMAIN calls : calls[i].via = "speech"
        /\ calls' = calls)
       => micState' = "processing"]_vars

\* C4: when a responder call completes after the view was unmounted, the
\* completion sets no lastResponse, changes no micState, invokes no answer
\* callback and starts no speech playback.
C4_SettleAfterUnmountIgnored ==
    [][(~mounted /\ Len(calls') < Len(calls))
       => (/\ voiceResponse' = voiceResponse
           /\ micState' = micState
           /\ speaking' = speaking
           /\ ~Contains(effects', "onVoiceAnswer")
           /\ ~Contains(effects', "speak"))]_vars

\* C5 (as claimed): every final-result event delivered while Listening moves
\* micState from Listening to Processing, dispatches exactly one query and
\* leaves interimTranscript empty.
C5_EveryFinalDispatchesOnce ==
    [][\A h \in HandleIds, f \in FinalTexts :
          (mounted /\ micState = "listening" /\ OnFinalResult(h, f))
          => (/\ micState' = "processing"
              /\ Len(calls') = Len(calls) + 1
              /\ interimTranscript' = EMPTY)]_vars

\* C5 (amended): a final-result event delivered while Listening whose text is
\* not blank moves micState from Listening to Processing, dispatches exactly
\* one query, carrying that text, and leaves interimTranscript empty; a
\* final-result event whose text is blank dispatches no query, leaves
\* micState Listening and leaves interimTranscript empty.
C5_NonBlankFinalDispatchesOnce ==
    [][\A h \in HandleIds, f \in FinalTexts :
          (mounted /\ micState = "listening" /\ OnFinalResult(h, f))
          => IF Trim(f) # EMPTY
             THEN /\ micState' = "processing"
                  /\ calls' = Append(calls,
                                QueryCall(f, selectedLanguage, "speech"))
                  /\ interimTranscript' = EMPTY
             ELSE /\ micState' = "listening"
                  /\ calls' = calls
                  /\ interimTranscript' = EMPTY]_vars

\* C5 witness: a non-blank final result has just been handled while
\* Listening with interim text on display
C5_Witness ==
    /\ mounted /\ micState = "processing"
    /\ effects = <<"onTranscriptReady", "fetch">>
    /\ interimTranscript = EMPTY
    /\ Len(calls) = 1 /\ calls[1].via = "speech"
    /\ \E h \in HandleIds : handles[h].st = "stopping"

\* C6: at most one responder call is outstanding at any time.
C6_AtMostOneOutstandingCall == Len(calls) <= 1

\* C7: at most one capture handle is active (started and not yet ended) at
\* any time.
C7_AtMostOneActiveHandle == Cardinality(ActiveHandles) <= 1

\* C8: at most one silence timer is pending at any time, and no timer is
\* pending once the session is not Listening or is unmounted.
C8_AtMostOneSilenceTimer ==
    /\ Cardinality(timers) <= 1
    /\ (~mounted \/ micState # "listening") => timers = {}

\* C8 witness: Listening with interim text on display and the capture still
\* running (no stop was requested, so the timer armed at the start of the
\* capture did not fire): the timer was cancelled
C8_Witness ==
    /\ mounted /\ micState = "listening"
    /\ interimTranscript # EMPTY
    /\ recognitionRef # 0 /\ handles[recognitionRef].st = "running"
    /\ timers = {} /\ timeoutRef = 0

\* C9: every interim-result event that brings interim text while Listening
\* leaves exactly one silence timer pending (the timer is cancelled and
\* re-armed).
C9_InterimRearmsTimer ==
    [][\A h \in HandleIds, t \in InterimTexts :
          (mounted /\ micState = "listening" /\ t # EMPTY
           /\ OnInterimResult(h, t))
          => Cardinality(timers') = 1]_vars

\* C10: while the session is mounted, Processing always has a responder call
\* outstanding, and whenever a responder call settles, with any outcome,
\* micState is Idle after the settlement.
C10_SettleReturnsToIdle ==
    [][/\ (mounted' /\ micState' = "processing") => calls' # << >>
       /\ \A i \in 1..MaxQueries, o \in Outcomes :
             (mounted /\ Settle(i, o)) => micState' = "idle"]_vars

\* C10 witness: a call has just settled through the fallback path while
\* another call was outstanding
C10_Witness ==
    /\ mounted /\ micState = "idle"
    /\ effects = SettleEffects("networkError")
    /\ voiceResponse = generateMockResponse(HI, "en-US")
    /\ Len(calls) = 1

\* ----------------------------------------------------------------------
\* Texts of the answers
\* ----------------------------------------------------------------------
\* the string literals of generateMockResponse (lines 318-368): the five
\* answer templates and the disclaimer, none of them the empty string
MockTemplates == {"glucose", "pressure", "medication", "greeting", "default",
                  "disclaimer"}

\* text.length > 0 for a text of the fallback responder or of the server
NonEmptyText(t) ==
    /\ t # Undefined
    /\ t.tpl \in MockTemplates \cup {"remote"}

\* the language tag of a localized text
TextLanguage(t) ==
    CASE t.loc = "hi" -> "hi-IN"
      [] t.loc = "kn" -> "kn-IN"
      [] t.loc = "en" -> "en-US"
      [] OTHER -> t.loc

\* C11: when a responder call fails with a network error, lastResponse
\* becomes the fallback answer for the query, with non-empty text, localized
\* to the language that is selected when the call fails (also when the
\* language was changed while the call was in flight).
C11_FallbackInCurrentLanguage ==
    [][\A i \in 1..MaxQueries :
          (mounted /\ Settle(i, "networkError"))
          => (/\ voiceResponse' =
                    generateMockResponse(calls[i].query, selectedLanguage)
              /\ NonEmptyText(voiceResponse'.answer_text)
              /\ TextLanguage(voiceResponse'.answer_text)
                    = selectedLanguage')]_vars

\* the remote failures: network error, non-success status, a body that is
\* not JSON, a null body, a body that lacks the answer text
RemoteFailures == {"networkError", "httpError", "badJson", "nullBody",
                   "malformed"}

\* C12: after every kind of remote failure (network error, non-success
\* status, malformed payload, including a success-status reply whose body
\* lacks the answer text) lastResponse is the local fallback answer for the
\* query, and the step shows no error notice.
C12_EveryFailureFallsBack ==
    [][\A i \in 1..MaxQueries, o \in RemoteFailures :
          (mounted /\ Settle(i, o))
          => (/\ voiceResponse' =
                    generateMockResponse(calls[i].query, calls[i].lang)
              /\ \A k \in DOMAIN effects' :
                    effects'[k] \notin {"toast:Speech Recognition Error",
                                        "toast:Microphone Access Denied",
                                        "toast:No Speech Detected",
                                        "toast:Microphone Access Required",
                                        "toast:Not Supported"})]_vars

\* the assignments to lastResponse among the side effects of a step
Assignments(fx) ==
    {k \in DOMAIN fx :
        fx[k] \in {"setVoiceResponse:remote", "setVoiceResponse:mock"}}

\* C13: every settlement of a dispatched query assigns lastResponse exactly
\* once, with the remote result or with the fallback result, never with the
\* one and then with the other.
C13_ResponseAssignedOnce ==
    [][\A i \in 1..MaxQueries, o \in Outcomes :
          (mounted /\ Settle(i, o))
          => Cardinality(Assignments(effects')) = 1]_vars

\* ----------------------------------------------------------------------
\* The fallback responder on its own: generateMockResponse applied to an
\* utterance held in textInput under the language in selectedLanguage, the
\* answer stored in voiceResponse
\* ----------------------------------------------------------------------
MaxWords == 2       \* words in an utterance

\* words that reach every branch of the responder: keywords, a keyword in
\* capitals, a word that merely contains a keyword, blanks, another word
MockWords ==
    {KW_BLOOD_SUGAR, <<"B">> \o Tail(KW_BLOOD_PRESSURE), KW_MEDICINE,
     KW_HELLO, <<"H", "I">>, <<"t", "h", "i", "s">>, <<" ">>, <<"x">>}

RECURSIVE UtterancesOf(_)
UtterancesOf(n) ==
    IF n = 0 THEN {EMPTY}
    ELSE LET shorter == UtterancesOf(n - 1)
         IN  shorter \cup {u \o w : u \in shorter, w \in MockWords}

MockUtterances == UtterancesOf(MaxWords)

\* VoiceAction['type'] (line 55)
ActionTypes == {"grocery", "reminder", "note", "appointment"}

MockInit ==
    /\ mounted = TRUE
    /\ supported = FALSE
    /\ micState = "idle"
    /\ selectedLanguage \in SupportedLanguages
    /\ interimTranscript = EMPTY
    /\ finalTranscript = EMPTY
    /\ voiceResponse = Null
    /\ textInput \in MockUtterances
    /\ showTextInput = TRUE
    /\ permissionDenied = FALSE
    /\ recognitionRef = 0
    /\ handles = [h \in HandleIds |->
                    [lang |-> selectedLanguage, st |-> "inactive"]]
    /\ timeoutRef = 0
    /\ timers = {}
    /\ permPending = << >>
    /\ calls = << >>
    /\ speaking = Null
    /\ effects = << >>
    /\ requested = 0
    /\ dispatched = 0
    /\ VoiceViewShown
    /\ UploadInit

\* the call generateMockResponse(query) of line 299
MockRespond ==
    /\ voiceResponse = Null
    /\ voiceResponse' = generateMockResponse(textInput, selectedLanguage)
    /\ UNCHANGED <<mounted, supported, micState, selectedLanguage,
                   interimTranscript, finalTranscript, textInput,
                   showTextInput, permissionDenied, recognitionRef, handles,
                   timeoutRef, timers, permPending, calls, speaking, effects,
                   requested, dispatched>>
    /\ UNCHANGED <<currentState, profileVars, uploadVars>>

MockNext == MockRespond

MockSpec == MockInit /\ [][MockNext]_vars

\* C14: for every utterance and every supported language (en-US, hi-IN,
\* kn-IN) the fallback responder returns an answer whose answer text and
\* disclaimer are non-empty and whose actions all have a type in
\* {grocery, reminder, note, appointment}.
C14_MockResponseWellFormed ==
    voiceResponse # Null
        => (/\ voiceResponse =
                  generateMockResponse(textInput, selectedLanguage)
            /\ NonEmptyText(voiceResponse.answer_text)
            /\ NonEmptyText(voiceResponse.disclaimer)
            /\ \A k \in DOMAIN voiceResponse.actions :
                  voiceResponse.actions[k] \in ActionTypes)

\* C14 witness: a Kannada answer to an utterance that names blood pressure
\* in capitals after another word, with its one suggested action
C14_Witness ==
    /\ selectedLanguage = "kn-IN"
    /\ textInput = <<"x">> \o <<"B">> \o Tail(KW_BLOOD_PRESSURE)
    /\ voiceResponse # Null
    /\ voiceResponse.answer_text =
          Template("pressure", "kn", <<"138/88", "high">>)
    /\ voiceResponse.actions = <<"grocery">>

\* ----------------------------------------------------------------------
\* Teardown, permission, capture failures, language switch
\* ----------------------------------------------------------------------
\* a capture that was started and has neither ended, failed, nor been asked
\* to stop
Capturing(h) == handles[h].st \in {"starting", "running"}

\* C15: once the view is unmounted the session is torn down: no capture is
\* running (every started capture has at least been asked to stop), no
\* silence timer is pending and no speech playback is in progress.
C15_TornDownAfterUnmount ==
    ~mounted => (/\ \A h \in HandleIds : ~Capturing(h)
                 /\ timers = {}
                 /\ speaking = Null)

C17_DeniedBlocksStart ==
    [][(mounted /\ permissionDenied)
       => (/\ ~MicClickStart
           /\ \A h \in HandleIds :
                 handles[h].st = "inactive"
                    => handles'[h].st = "inactive")]_vars

\* C18: a denial can always be lifted: in every state with permissionDenied
\* true the mic can be activated, or a permission request or a capture start
\* is already under way (permissionDenied becomes false only at the start
\* event of a capture).
C18_DenialRecoverable ==
    (mounted /\ permissionDenied)
        => (\/ MicButtonEnabled
            \/ permPending # << >>
            \/ \E h \in HandleIds :
                  handles[h].st \in {"starting", "stopStarting"})

\* C19: every capture error (permission error, no-speech, any other) leaves
\* micState Idle, interimTranscript empty, no silence timer pending and no
\* capture running; after an error other than the permission error
\* permissionDenied is unchanged and, unless it was set before, the mic
\* button is enabled.
C19_ErrorReturnsToIdle ==
    [][\A h \in HandleIds, c \in ErrorCodes :
          (mounted /\ OnError(h, c))
          => (/\ micState' = "idle"
              /\ interimTranscript' = EMPTY
              /\ timers' = {}
              /\ \A g \in HandleIds :
                    handles'[g].st \notin {"starting", "running"}
              /\ c # "not-allowed"
                    => (/\ permissionDenied' = permissionDenied
                        /\ ~permissionDenied => MicButtonEnabled'))]_vars

\* C20: a language switch leaves micState unchanged, and leaves every
\* capture that is active as it is: neither stopped nor given the new
\* language.
C20_SwitchLeavesCaptureAlone ==
    [][\A l \in InputLanguages :
          SelectLanguage(l)
          => (/\ micState' = micState
              /\ \A h \in HandleIds :
                    Active(h) => handles'[h] = handles[h])]_vars

\* ----------------------------------------------------------------------
\* Language of a capture, mailbox, timer, playback, typed queries
\* ----------------------------------------------------------------------
\* C21: every capture start uses the language that is selected when start
\* is invoked: a handle that goes from inactive to started carries the
\* selected language as its tag.
C21_StartUsesSelectedLanguage ==
    [][\A h \in HandleIds :
          (handles[h].st = "inactive" /\ handles'[h].st = "starting")
          => handles'[h].lang = selectedLanguage']_vars

\* C22: finalTranscript is a one-shot mailbox: a value put into it, blank or
\* not, is consumed and cleared within the next turn, so it is never
\* non-empty in two consecutive states.
C22_FinalTranscriptOneShot ==
    [][finalTranscript # EMPTY => finalTranscript' = EMPTY]_vars

\* C23: the firing of the silence timer only requests the current capture
\* to stop (a started capture becomes one that is stopping; nothing ends):
\* it changes no micState and no other field of the session.  micState
\* changes only in the capture callbacks (start, final result, error, end)
\* and at query dispatch and settlement.
C23_TimerOnlyRequestsStop ==
    [][/\ \A t \in timers :
             TimerFire(t)
             => (/\ \A h \in HandleIds :
                       handles'[h] =
                          IF h # recognitionRef THEN handles[h]
                          ELSE [lang |-> handles[h].lang,
                                st |-> CASE handles[h].st = "starting"
                                              -> "stopStarting"
                                         [] handles[h].st = "running"
                                              -> "stopping"
                                         [] OTHER -> handles[h].st]
                 /\ UNCHANGED <<micState, selectedLanguage,
                                interimTranscript, finalTranscript,
                                voiceResponse, textInput, showTextInput,
                                permissionDenied, recognitionRef, timeoutRef,
                                permPending, calls, speaking, mounted>>)
       /\ micState' # micState
             => (\/ \E h \in HandleIds : OnStart(h)
                 \/ \E h \in HandleIds, f \in FinalTexts : OnFinalResult(h, f)
                 \/ \E h \in HandleIds, c \in ErrorCodes : OnError(h, c)
                 \/ \E h \in HandleIds : OnEnd(h)
                 \/ PressEnter \/ ClickSend
                 \/ \E i \in 1..MaxQueries, o \in Outcomes :
                       Settle(i, o))]_vars

\* C23 witness: the timer armed at the start of the capture has fired while
\* Listening without interim text: the capture is stopping, micState is
\* still Listening
C23_Witness ==
    /\ mounted /\ micState = "listening" /\ interimTranscript = EMPTY
    /\ timers = {} /\ timeoutRef # 0
    /\ recognitionRef # 0 /\ handles[recognitionRef].st = "stopping"

\* C24: whenever lastResponse changes, the playback in progress is
\* cancelled and then the new answer text is spoken, tagged with the
\* language selected at that moment.
C24_NewAnswerReplacesPlayback ==
    [][voiceResponse' # voiceResponse
       => (/\ Len(effects') >= 2
           /\ SubSeq(effects', Len(effects') - 1, Len(effects'))
                 = <<"cancel", "speak">>
           /\ speaking' = Utterance(voiceResponse'.answer_text,
                                    selectedLanguage'))]_vars

\* C25: submitting a typed query has the observable effects of a final
\* result with the same text: the transcript-ready notification and one
\* responder dispatch, micState Processing, one more call outstanding, for
\* the typed text.
C25_TypedQueryAsFinalResult ==
    [][((PressEnter \/ ClickSend) /\ Trim(textInput) # EMPTY)
       => (/\ effects' = <<"onTranscriptReady", "fetch">>
           /\ micState' = "processing"
           /\ Len(calls') = Len(calls) + 1
           /\ calls'[Len(calls')].query = Trim(textInput)
           /\ calls'[Len(calls')].lang = selectedLanguage)]_vars

\* C26: when speech capture is unsupported, a mic activation is accepted in
\* Idle only, leaves micState Idle, opens the text input, requests no
\* permission and starts no capture; an unsupported session never has a
\* permission request pending, a capture started, permissionDenied set or
\* micState Listening.
C26_UnsupportedDegradesToText ==
    [][/\ MicClickUnsupported
          => (/\ micState = "idle" /\ micState' = "idle"
              /\ showTextInput'
              /\ requested' = requested /\ permPending' = permPending
              /\ handles' = handles)
       /\ ~supported'
          => (/\ permPending' = << >> /\ requested' = 0
              /\ \A h \in HandleIds : handles'[h].st = "inactive"
              /\ ~permissionDenied'
              /\ micState' # "listening")]_vars

\* C26 witness: the mic was activated in an unsupported session after an
\* answer was received: text input open, Idle, answer kept
C26_Witness ==
    /\ mounted /\ ~supported
    /\ effects = <<"toast:Not Supported">>
    /\ showTextInput /\ micState = "idle"
    /\ voiceResponse # Null
    /\ permPending = << >>

\* ----------------------------------------------------------------------
\* Answers of the fallback responder, checked under MockSpec
\* ----------------------------------------------------------------------
\* C27: for every utterance that names blood sugar, the English fallback
\* answer is the blood-sugar text and contains the three values of the
\* mocked report (145 mg/dL, 2024-01-15, elevated), and the actions
\* offered are exactly reminder and appointment.
C27_BloodSugarAnswer ==
    (/\ voiceResponse # Null
     /\ selectedLanguage = "en-US"
     /\ Includes(ToLowerCase(textInput),
                 <<"b","l","o","o","d"," ","s","u","g","a","r">>))
        => (/\ voiceResponse.answer_text.tpl = "glucose"
            /\ voiceResponse.answer_text.loc = "en"
            /\ Contains(voiceResponse.answer_text.arg, "145 mg/dL")
            /\ Contains(voiceResponse.answer_text.arg, "2024-01-15")
            /\ Contains(voiceResponse.answer_text.arg, "elevated")
            /\ Len(voiceResponse.actions) = 2
            /\ {voiceResponse.actions[k] : k \in DOMAIN voiceResponse.actions}
                  = {"reminder", "appointment"})

\* C27 witness: the English answer to an utterance that names blood sugar
\* after another word
C27_Witness ==
    /\ selectedLanguage = "en-US"
    /\ textInput = <<"x">> \o KW_BLOOD_SUGAR
    /\ voiceResponse # Null
    /\ voiceResponse.answer_text.tpl = "glucose"

\* C28: for the utterance "hello" (in any letter case handled, in each
\* language) the fallback answer is the greeting text with the stored
\* profile name, and no actions are offered.
C28_HelloAnswer ==
    (/\ voiceResponse # Null
     /\ ToLowerCase(textInput) = <<"h","e","l","l","o">>)
        => (/\ voiceResponse.answer_text.tpl = "greeting"
            /\ TextLanguage(voiceResponse.answer_text) = selectedLanguage
            /\ voiceResponse.answer_text.arg = <<"John Doe">>
            /\ voiceResponse.actions = << >>)

\* C28 witness: the Hindi answer to "hello"
C28_Witness ==
    /\ selectedLanguage = "hi-IN"
    /\ textInput = <<"h","e","l","l","o">>
    /\ voiceResponse # Null
    /\ voiceResponse.answer_text.tpl = "greeting"

\* ----------------------------------------------------------------------
\* Answer card
\* ----------------------------------------------------------------------
\* C29: Replay cancels the playback in progress and speaks the answer text
\* of lastResponse again, tagged with the selected language, without a
\* query: no responder call is dispatched, and micState and lastResponse are
\* unchanged.
C29_ReplaySpeaksWithoutQuery ==
    [][Replay
       => (/\ speaking' = [text |-> voiceResponse.answer_text,
                           lang |-> selectedLanguage]
           /\ effects' = <<"cancel", "speak">>
           /\ calls' = calls /\ dispatched' = dispatched
           /\ micState' = micState
           /\ voiceResponse' = voiceResponse)]_vars

\* C29 witness: an English answer replayed after the language was switched
\* to Hindi, with no call outstanding
C29_Witness ==
    /\ mounted /\ effects = <<"cancel", "speak">>
    /\ voiceResponse # Null
    /\ speaking = [text |-> voiceResponse.answer_text, lang |-> "hi-IN"]
    /\ voiceResponse.disclaimer.loc = "en"
    /\ calls = << >> /\ micState = "idle"

\* C30: selecting a suggested action shows the notice of its type and
\* changes nothing else in the session (micState, lastResponse,
\* transcripts, flags, calls, capture, timers, playback); selecting the
\* action that was selected in the previous turn leaves the whole state as
\* the first selection left it.
C30_ActionClickIdempotent ==
    [][\A k \in 1..2 :
          ActionClick(k)
          => (/\ UNCHANGED <<mounted, micState, selectedLanguage,
                             interimTranscript, finalTranscript,
                             voiceResponse, textInput, showTextInput,
                             permissionDenied, recognitionRef, handles,
                             timeoutRef, timers, permPending, calls,
                             speaking, requested, dispatched>>
              /\ voiceResponse.actions[k] = "note"
                    => effects' = <<"toast:Note Saved">>
              /\ effects = <<"toast:Note Saved">>
                    => UNCHANGED vars)]_vars

\* C30 witness: the suggested action of an answer was selected while the
\* answer is being spoken
C30_Witness ==
    /\ mounted /\ effects = <<"toast:Note Saved">>
    /\ voiceResponse # Null /\ voiceResponse.actions = <<"note">>
    /\ speaking # Null

\* ----------------------------------------------------------------------
\* Topic selection of the fallback responder, checked under MockSpec
\* ----------------------------------------------------------------------
\* C31: the fallback responder answers the first topic, in the order
\* glucose, blood pressure, medication, greeting, default, one of whose
\* keywords the utterance contains, whatever the letter case, and offers
\* the actions of that topic only, also when the utterance names several
\* topics.
C31_FirstTopicWins ==
    voiceResponse # Null
        => LET input == ToLowerCase(textInput)
               topic == voiceResponse.answer_text.tpl
               expected ==
                   CASE Includes(input, KW_BLOOD_SUGAR)
                        \/ Includes(input, KW_GLUCOSE)
                        \/ Includes(input, KW_DIABETES) -> "glucose"
                     [] OTHER ->
                   CASE Includes(input, KW_BLOOD_PRESSURE)
                        \/ Includes(input, KW_HYPERTENSION) -> "pressure"
                     [] OTHER ->
                   CASE Includes(input, KW_MEDICATION)
                        \/ Includes(input, KW_MEDICINE) -> "medication"
                     [] OTHER ->
                   CASE Includes(input, KW_HELLO) \/ Includes(input, KW_HI)
                        \/ Includes(input, KW_NAMASTE) -> "greeting"
                     [] OTHER -> "default"
           IN  /\ topic = expected
               /\ voiceResponse.actions =
                     CASE topic = "glucose" -> <<"reminder", "appointment">>
                       [] topic = "pressure" -> <<"grocery">>
                       [] topic = "medication" -> <<"reminder">>
                       [] OTHER -> << >>
               /\ textInput = <<"H", "I">> => topic = "greeting"
               /\ textInput = KW_MEDICINE \o <<"B">> \o Tail(KW_BLOOD_PRESSURE)
                     => topic = "pressure"

\* C31 witness: an utterance that names medicine and then blood sugar is
\* answered about blood sugar
C31_Witness ==
    /\ textInput = KW_MEDICINE \o KW_BLOOD_SUGAR
    /\ voiceResponse # Null
    /\ voiceResponse.answer_text.tpl = "glucose"
    /\ voiceResponse.actions = <<"reminder", "appointment">>

\* C32: an utterance that contains no topic keyword as a word of its own
\* (such as "this") receives the default answer, which echoes the utterance
\* and offers no actions.
C32_NoKeywordWordGetsDefault ==
    LET padded == <<" ">> \o ToLowerCase(textInput) \o <<" ">>
        HasWord(w) == Includes(padded, <<" ">> \o w \o <<" ">>)
    IN  (/\ voiceResponse # Null
         /\ \A w \in {KW_BLOOD_SUGAR, KW_GLUCOSE, KW_DIABETES,
                      KW_BLOOD_PRESSURE, KW_HYPERTENSION, KW_MEDICATION,
                      KW_MEDICINE, KW_HELLO, KW_HI, KW_NAMASTE} :
               ~HasWord(w))
            => (/\ voiceResponse.answer_text.tpl = "default"
                /\ voiceResponse.answer_text.arg = textInput
                /\ voiceResponse.actions = << >>)

\* ----------------------------------------------------------------------
\* Overlapping activations and calls
\* ----------------------------------------------------------------------
\* C33: whenever micState is Idle no capture is running (a capture whose
\* start event was delivered and that has neither been asked to stop, nor
\* failed, nor ended).
C33_IdleImpliesNoCapture ==
    (mounted /\ micState = "idle")
        => \A h \in HandleIds : handles[h].st # "running"

\* C34: start() is never invoked on a capture handle that is already
\* started and has not ended: no turn ends with the InvalidStateError that
\* such a start() throws.
C34_NoStartOnStartedHandle ==
    ~Contains(effects, "start:InvalidStateError")

\* C35: when responder calls overlap, the answer finally shown is that of
\* the most recently dispatched query whatever the order of settlement: a
\* call that settles after the most recent call has settled does not change
\* lastResponse.
C35_LatestQueryWins ==
    [][\A i \in 1..MaxQueries, o \in Outcomes :
          (/\ mounted /\ Settle(i, o)
           /\ \A j \in DOMAIN calls : calls[j].seq < dispatched)
          => voiceResponse' = voiceResponse]_vars

\* C36: while micState is Processing no mic activation is accepted: no
\* step taken in Processing is a mic click in any of its three forms
\* (unsupported notice, stop request, permission request), so a click
\* requests no permission, starts or stops no capture and changes no field.
C36_MicIgnoredWhileProcessing ==
    [][(mounted /\ micState = "processing")
       => ~(MicClickUnsupported \/ MicClickStop \/ MicClickStart)]_vars

\* C36 witness: Processing in a session that supports capture, with the
\* permission neither requested nor denied: only micState disables the mic
C36_Witness ==
    /\ mounted /\ micState = "processing" /\ supported
    /\ ~permissionDenied /\ requested = 0 /\ permPending = << >>
    /\ ~MicButtonEnabled
    /\ calls # << >>

\* ----------------------------------------------------------------------
\* The view state machine of the page (src/src/pages/Index.tsx) with the
\* ProfileSetup form (src/unnamed/part_001, lines 660-682) and the
\* Dashboard's navigation.  The page's own selectedLanguage (line 29) takes
\* its values from the language context and plays no part in the render
\* guards; it is left out.
\* ----------------------------------------------------------------------
\* the names and ages typed into the form
Names == {EMPTY, <<"A">>, BLANK}
Ages == {EMPTY, <<"0">>, <<"7">>}

\* the VoiceAssistant view before it is first shown
VoiceNotShown ==
    /\ mounted = FALSE
    /\ supported \in BOOLEAN
    /\ micState = "idle"
    /\ selectedLanguage = InitialLanguage
    /\ interimTranscript = EMPTY
    /\ finalTranscript = EMPTY
    /\ voiceResponse = Null
    /\ textInput = EMPTY
    /\ showTextInput = FALSE
    /\ permissionDenied = FALSE
    /\ recognitionRef = 0
    /\ handles = [h \in HandleIds |->
                    [lang |-> InitialLanguage, st |-> "inactive"]]
    /\ timeoutRef = 0
    /\ timers = {}
    /\ permPending = << >>
    /\ calls = << >>
    /\ speaking = Null
    /\ effects = << >>
    /\ requested = 0
    /\ dispatched = 0

\* the page after construction (lines 28-30): the language view
IndexInit ==
    /\ currentState = "language"
    /\ userProfile = Null
    /\ profile = EmptyProfile
    /\ VoiceNotShown
    /\ UploadInit

\* a VoiceAssistant view mounts: its state is that of Init
VoiceAssistantMounts ==
    /\ mounted' = TRUE
    /\ micState' = "idle"
    /\ selectedLanguage' = InitialLanguage
    /\ interimTranscript' = EMPTY
    /\ finalTranscript' = EMPTY
    /\ voiceResponse' = Null
    /\ textInput' = EMPTY
    /\ showTextInput' = FALSE
    /\ permissionDenied' = FALSE
    /\ recognitionRef' = IF supported THEN 1 ELSE 0
    /\ handles' = [h \in HandleIds |->
                     [lang |-> InitialLanguage, st |-> "inactive"]]
    /\ timeoutRef' = 0
    /\ timers' = {}
    /\ permPending' = << >>
    /\ calls' = << >>
    /\ effects' = << >>
    /\ requested' = 0
    /\ dispatched' = 0
    /\ UNCHANGED supported

\* the effect of lines 32-37, run by every change of currentState
SpeechCleanup ==
    speaking' = Null

\* handleLanguageSelect (lines 39-42), called by a language button of the
\* LanguageSelector, which is rendered while currentState is 'language'
handleLanguageSelect ==
    /\ currentState = "language"
    /\ currentState' = "profile"
    /\ SpeechCleanup
    /\ UNCHANGED <<voiceViewVars, profileVars, uploadVars>>

\* the onChange of the name input (line 707)
ChangeName(n) ==
    /\ currentState = "profile"
    /\ profile' = [profile EXCEPT !.name = n]
    /\ UNCHANGED <<voiceVars, currentState, userProfile, uploadVars>>

\* the onChange of the age input (line 722)
ChangeAge(a) ==
    /\ currentState = "profile"
    /\ profile' = [profile EXCEPT !.age = a]
    /\ UNCHANGED <<voiceVars, currentState, userProfile, uploadVars>>

\* the onClick of a gender button (line 739)
SelectGender(g) ==
    /\ currentState = "profile"
    /\ profile' = [profile EXCEPT !.gender = g]
    /\ UNCHANGED <<voiceVars, currentState, userProfile, uploadVars>>

\* handleHealthConditionChange (lines 669-676): the checkbox of condition id
\* is toggled, checked being its new state
handleHealthConditionChange(id) ==
    LET checked == ~Contains(profile.healthConditions, id)
    IN  /\ currentState = "profile"
        /\ profile' =
             [profile EXCEPT !.healthConditions =
                 IF checked
                 THEN Append(profile.healthConditions, id)
                 ELSE SelectSeq(profile.healthConditions,
                                LAMBDA c : c # id)]
        /\ UNCHANGED <<voiceVars, currentState, userProfile, uploadVars>>

\* the test of handleSubmit (line 679) and of the disabled attribute of the
\* two submit buttons (lines 759, 796): a non-empty string is truthy
ProfileCompleteNameOnly(p) ==
    p.name # EMPTY

ProfileComplete(p) ==
    p.name # EMPTY /\ p.age # EMPTY /\ p.gender # ""

\* handleSubmit (lines 678-682) calling handleProfileComplete (Index.tsx
\* lines 44-47); ProfileSetup unmounts and its form state is dropped
handleSubmit ==
    /\ currentState = "profile"
    /\ ProfileComplete(profile)
    /\ userProfile' = profile
    /\ currentState' = "dashboard"
    /\ profile' = EmptyProfile
    /\ SpeechCleanup
    /\ UNCHANGED <<voiceViewVars, uploadVars>>

\* handleNavigation (lines 49-51), called by the Dashboard, which is
\* rendered while currentState is 'dashboard' and userProfile is set
handleNavigation(section) ==
    /\ currentState = "dashboard"
    /\ userProfile # Null
    /\ currentState' = section
    /\ SpeechCleanup
    /\ IF section = "voice"
       THEN VoiceAssistantMounts
       ELSE UNCHANGED voiceViewVars
    /\ UNCHANGED <<profileVars, uploadVars>>

\* the views that render a control calling handleBack: PrescriptionUpload,
\* WellnessTips (only rendered with a profile), VoiceAssistant and the
\* coming-soon placeholder
HasBackButton ==
    \/ currentState \in {"scan", "upload", "voice", "medicines",
                         "reminders", "progress"}
    \/ currentState = "wellness" /\ userProfile # Null

\* handleBack (lines 53-55); leaving the voice view unmounts it
handleBack ==
    /\ HasBackButton
    /\ IF currentState = "voice"
       THEN Unmount
       ELSE /\ currentState' = "dashboard"
            /\ SpeechCleanup
            /\ UNCHANGED <<voiceViewVars, profileVars, uploadVars>>

IndexNext ==
    \/ handleLanguageSelect
    \/ \E n \in Names : ChangeName(n)
    \/ \E a \in Ages : ChangeAge(a)
    \/ \E g \in GenderKeys : SelectGender(g)
    \/ \E id \in ConditionIds : handleHealthConditionChange(id)
    \/ handleSubmit
    \/ \E section \in FeatureViews : handleNavigation(section)
    \/ handleBack

IndexSpec == IndexInit /\ [][IndexNext]_vars

\* C37: the dashboard or a feature view is shown only if a profile with
\* non-empty name, age and gender has been submitted; once the profile is
\* set no step leads to the language or the profile view, and every step
\* that leaves a feature view (Back) leads to the dashboard.
C37_ViewsNeedCompletedProfile ==
    /\ [](currentState \in FeatureViews \cup {"dashboard"}
            => /\ userProfile # Null
               /\ userProfile.name # EMPTY
               /\ userProfile.age # EMPTY
               /\ userProfile.gender # "")
    /\ [][/\ userProfile # Null
             => currentState' \notin {"language", "profile"}
          /\ currentState \in FeatureViews /\ currentState' # currentState
             => currentState' = "dashboard"]_vars

\* the profile was submitted, the voice view was opened from the dashboard
\* and Back has returned to the dashboard
C37_Witness ==
    /\ currentState = "dashboard"
    /\ userProfile # Null
    /\ ~mounted
    /\ effects = <<"cancel">>

\* ----------------------------------------------------------------------
\* The prescription upload flow (src/src/components/PrescriptionUpload.tsx)
\* with the analysis it awaits (src/src/lib/geminiVision.ts).  A job is one
\* upload: the FileReader of handleFileUpload, then the FileReader of
\* processImage, then the three model calls of analyzePrescriptionImage.
\* A continuation after an await runs in the turn of the reply it awaited.
\* ----------------------------------------------------------------------
MaxUploads == 2

\* where a job is: waiting for a reader, waiting for a model call, or over
JobStages == {"dataUrl", "dataUrlError", "base64", "base64Error",
              "importFailed", "extraction", "structuring", "simplification",
              "returned", "rejected"}

\* the stages at which a reader or a model call of the job is outstanding
PendingStages == {"dataUrl", "base64", "extraction", "structuring",
                  "simplification"}

\* the generateContent calls of analyzePrescriptionImage, in program order
ModelCalls == <<"extraction", "structuring", "simplification">>

\* what a model call can come back with: a response with text, a response
\* without text, or a failure (the call throws)
ExtractionReplies == {"text", "empty", "error"}
SimplificationReplies == {"text", "empty", "error"}

\* the structuring call's text can be JSON of the requested schema, JSON
\* without a medicines member, or text that is not JSON
StructuringReplies == {"json", "jsonWithoutMedicines", "garbage", "empty",
                       "error"}

\* the analysis of job n has started (processImage has run) and a reader or
\* a model call of it is outstanding
Analysing(n) ==
    jobs[n].stage \in PendingStages \ {"dataUrl"}

\* a job when handleFileUpload has started its reader; during records
\* whether the analysis of an earlier job is in flight at that moment
NewJob ==
    [stage |-> "dataUrl", log |-> << >>, replies |-> << >>,
     extractedText |-> NoText, structuredData |-> Null, answer |-> Null,
     during |-> \E n \in DOMAIN jobs : Analysing(n)]

\* line 69: extractionResponse.text || "Could not extract text from image"
ExtractedTextOf(n, reply) ==
    [upload |-> n,
     text |-> IF reply = "text" THEN "extracted text"
              ELSE "Could not extract text from image"]

\* line 202: simplificationResponse.text || "Could not create simplified
\* explanation"
SimplifiedTextOf(n, reply) ==
    [upload |-> n,
     text |-> IF reply = "text" THEN "simplified explanation"
              ELSE "Could not create simplified explanation"]

\* JSON.parse of the structuring call's text
JsonParse(reply) ==
    CASE reply = "json" ->
           [ok |-> TRUE, value |-> [medicines |-> <<"medicine">>]]
      [] reply = "jsonWithoutMedicines" ->
           [ok |-> TRUE, value |-> [doctorName |-> "doctor"]]
      [] OTHER -> [ok |-> FALSE]

\* lines 145-153: structuredData starts as { medicines: [] } and is replaced
\* by the parsed text if there is text and it parses
StructuredDataOfStrict(reply) ==
    IF reply # "empty" /\ JsonParse(reply).ok
    THEN JsonParse(reply).value
    ELSE Null

StructuredDataOf(reply) ==
    IF reply # "empty" /\ JsonParse(reply).ok
    THEN JsonParse(reply).value
    ELSE [medicines |-> << >>]

\* line 169: the simplification prompt reads structuredData.medicines.length,
\* which throws a TypeError if there is no medicines member
PromptBuilds(data) ==
    "medicines" \in DOMAIN data

\* what a failed model call throws, and what line 169 throws
CallFailed == [isError |-> TRUE, message |-> "model call failed"]
TypeError == [isError |-> TRUE, message |-> "cannot read length"]

\* lines 210-213: the error analyzePrescriptionImage rejects with
AnalysisError(e) ==
    [error |-> <<"Failed to analyze prescription: ",
                 IF e.isError THEN e.message ELSE "Unknown error">>]

\* lines 204-208: the value analyzePrescriptionImage returns
AnalysisResult(j, simplified) ==
    [extractedText |-> j.extractedText,
     simplifiedExplanation |-> simplified,
     structuredData |-> j.structuredData]

\* the view after construction, the page showing it
UploadSpecInit ==
    /\ currentState = "upload"
    /\ userProfile = SessionProfile
    /\ profile = EmptyProfile
    /\ VoiceNotShown
    /\ supported
    /\ UploadInit

\* handleFileUpload (lines 28-38) with a file chosen; the file input is
\* rendered while uploadedImage is null
handleFileUpload ==
    /\ uploadedImage = 0
    /\ Len(jobs) < MaxUploads
    /\ jobs' = Append(jobs, NewJob)
    /\ toasts' = << >>
    /\ UNCHANGED <<uploadedImage, isProcessing, extractedText,
                   simplifiedText>>
    /\ UNCHANGED <<voiceVars, currentState, profileVars>>

\* reader.onload of handleFileUpload (lines 32-35): the image is shown and
\* processImage (lines 40-71) sets isProcessing and starts its own reader
DataUrlLoaded(n) ==
    /\ n \in DOMAIN jobs
    /\ jobs[n].stage = "dataUrl"
    /\ uploadedImage' = n
    /\ isProcessing' = TRUE
    /\ jobs' = [jobs EXCEPT ![n].stage = "base64"]
    /\ toasts' = << >>
    /\ UNCHANGED <<extractedText, simplifiedText>>
    /\ UNCHANGED <<voiceVars, currentState, profileVars>>

\* the reader of handleFileUpload fails: it has no error handler
DataUrlError(n) ==
    /\ n \in DOMAIN jobs
    /\ jobs[n].stage = "dataUrl"
    /\ jobs' = [jobs EXCEPT ![n].stage = "dataUrlError"]
    /\ toasts' = << >>
    /\ UNCHANGED <<uploadedImage, isProcessing, extractedText,
                   simplifiedText>>
    /\ UNCHANGED <<voiceVars, currentState, profileVars>>

\* the catch of lines 61-69
ProcessingFailed ==
    /\ isProcessing' = FALSE
    /\ toasts' = <<"Processing Failed">>
    /\ UNCHANGED <<uploadedImage, extractedText, simplifiedText>>

\* the continuation of lines 52-60 with the returned analysis
ProcessingSucceeded(analysis) ==
    /\ extractedText' = analysis.extractedText
    /\ simplifiedText' = analysis.simplifiedExplanation
    /\ isProcessing' = FALSE
    /\ toasts' = <<"Prescription Analyzed Successfully">>
    /\ UNCHANGED uploadedImage

\* the catch of analyzePrescriptionImage (lines 210-213), then the catch of
\* processImage: job n, being j, rejects because e was thrown
Rejects(n, j, e) ==
    /\ jobs' = [jobs EXCEPT ![n] =
                  [j EXCEPT !.stage = "rejected",
                            !.answer = AnalysisError(e)]]
    /\ ProcessingFailed

\* reader.onload of processImage (lines 45-50): the module is imported and
\* analyzePrescriptionImage issues the extraction call (lines 56-67); a
\* failed import is caught by lines 61-69
Base64Loaded(n, imported) ==
    /\ n \in DOMAIN jobs
    /\ jobs[n].stage = "base64"
    /\ IF imported
       THEN /\ jobs' = [jobs EXCEPT ![n].stage = "extraction",
                                    ![n].log = <<ModelCalls[1]>>]
            /\ toasts' = << >>
            /\ UNCHANGED <<uploadedImage, isProcessing, extractedText,
                           simplifiedText>>
       ELSE /\ jobs' = [jobs EXCEPT ![n].stage = "importFailed"]
            /\ ProcessingFailed
    /\ UNCHANGED <<voiceVars, currentState, profileVars>>

\* the reader of processImage fails: it has no error handler, and the catch
\* of lines 72-79 only covers a throw of readAsDataURL itself
Base64Error(n) ==
    /\ n \in DOMAIN jobs
    /\ jobs[n].stage = "base64"
    /\ jobs' = [jobs EXCEPT ![n].stage = "base64Error"]
    /\ toasts' = << >>
    /\ UNCHANGED <<uploadedImage, isProcessing, extractedText,
                   simplifiedText>>
    /\ UNCHANGED <<voiceVars, currentState, profileVars>>

\* the extraction call settles (lines 56-69); the structuring call is issued
\* (lines 104-143)
ExtractionReply(n, reply) ==
    /\ n \in DOMAIN jobs
    /\ jobs[n].stage = "extraction"
    /\ LET j == [jobs[n] EXCEPT !.replies = Append(@, reply)]
       IN  IF reply = "error"
           THEN Rejects(n, j, CallFailed)
           ELSE /\ jobs' = [jobs EXCEPT ![n] =
                              [j EXCEPT !.stage = "structuring",
                                        !.log = Append(@, ModelCalls[2]),
                                        !.extractedText =
                                            ExtractedTextOf(n, reply)]]
                /\ toasts' = << >>
                /\ UNCHANGED <<uploadedImage, isProcessing, extractedText,
                               simplifiedText>>
    /\ UNCHANGED <<voiceVars, currentState, profileVars>>

\* the structuring call settles (lines 104-153); the prompt is built and the
\* simplification call is issued (lines 155-200)
StructuringReply(n, reply) ==
    /\ n \in DOMAIN jobs
    /\ jobs[n].stage = "structuring"
    /\ LET j == [jobs[n] EXCEPT !.replies = Append(@, reply)]
           data == StructuredDataOf(reply)
       IN  IF reply = "error"
           THEN Rejects(n, j, CallFailed)
           ELSE IF ~PromptBuilds(data)
           THEN Rejects(n, [j EXCEPT !.structuredData = data], TypeError)
           ELSE /\ jobs' = [jobs EXCEPT ![n] =
                              [j EXCEPT !.stage = "simplification",
                                        !.log = Append(@, ModelCalls[3]),
                                        !.structuredData = data]]
                /\ toasts' = << >>
                /\ UNCHANGED <<uploadedImage, isProcessing, extractedText,
                               simplifiedText>>
    /\ UNCHANGED <<voiceVars, currentState, profileVars>>

\* the simplification call settles (lines 197-208) and processImage
\* continues with the analysis (lines 52-60)
SimplificationReply(n, reply) ==
    /\ n \in DOMAIN jobs
    /\ jobs[n].stage = "simplification"
    /\ LET j == [jobs[n] EXCEPT !.replies = Append(@, reply)]
           analysis == AnalysisResult(j, SimplifiedTextOf(n, reply))
       IN  IF reply = "error"
           THEN Rejects(n, j, CallFailed)
           ELSE /\ jobs' = [jobs EXCEPT ![n] =
                              [j EXCEPT !.stage = "returned",
                                        !.answer = analysis]]
                /\ ProcessingSucceeded(analysis)
    /\ UNCHANGED <<voiceVars, currentState, profileVars>>

\* the Upload Different Image button (lines 167-174), rendered while an
\* image is shown, whether or not an analysis is running
UploadDifferentImage ==
    /\ uploadedImage # 0
    /\ uploadedImage' = 0
    /\ toasts' = << >>
    /\ UNCHANGED <<isProcessing, extractedText, simplifiedText, jobs>>
    /\ UNCHANGED <<voiceVars, currentState, profileVars>>

UploadNext ==
    \/ handleFileUpload
    \/ \E n \in 1..MaxUploads : DataUrlLoaded(n)
    \/ \E n \in 1..MaxUploads : DataUrlError(n)
    \/ \E n \in 1..MaxUploads, imported \in BOOLEAN : Base64Loaded(n, imported)
    \/ \E n \in 1..MaxUploads : Base64Error(n)
    \/ \E n \in 1..MaxUploads, r \in ExtractionReplies : ExtractionReply(n, r)
    \/ \E n \in 1..MaxUploads, r \in StructuringReplies :
          StructuringReply(n, r)
    \/ \E n \in 1..MaxUploads, r \in SimplificationReplies :
          SimplificationReply(n, r)
    \/ UploadDifferentImage

UploadSpec == UploadSpecInit /\ [][UploadNext]_vars

UploadTypeOK ==
    /\ uploadedImage \in 0..MaxUploads
    /\ isProcessing \in BOOLEAN
    /\ Len(jobs) <= MaxUploads
    /\ \A n \in DOMAIN jobs :
          /\ jobs[n].stage \in JobStages
          /\ Len(jobs[n].replies) <= 3
    /\ extractedText.upload \in 0..MaxUploads
    /\ simplifiedText.upload \in 0..MaxUploads

\* C38: when a second image has been uploaded while the analysis of an
\* earlier one was in flight, isProcessing is true as long as the analysis
\* of the latest upload is in flight, and once nothing is in flight the
\* texts shown are those the latest upload's analysis returned.
C38_LatestUploadWins ==
    LET last == Len(jobs)
    IN  last >= 2 /\ jobs[last].during =>
          /\ Analysing(last) => isProcessing
          /\ /\ \A n \in DOMAIN jobs : jobs[n].stage \notin PendingStages
             /\ jobs[last].stage = "returned"
             => /\ extractedText = jobs[last].answer.extractedText
                /\ simplifiedText = jobs[last].answer.simplifiedExplanation

\* C39: the step that ends a started analysis, with success or with
\* failure, leaves isProcessing false; if it ends in failure the two texts
\* are left as they were and an error notice is raised.
C39_EveryAnalysisResetsProcessing ==
    [][\A n \in DOMAIN jobs :
          Analysing(n) /\ jobs'[n].stage \notin PendingStages
          => /\ ~isProcessing'
             /\ jobs'[n].stage # "returned"
                => /\ extractedText' = extractedText
                   /\ simplifiedText' = simplifiedText
                   /\ toasts' = <<"Processing Failed">>]_vars

\* the calls of ModelCalls a job has made are the first k of them
IsPrefix(s, t) ==
    /\ Len(s) <= Len(t)
    /\ \A i \in DOMAIN s : s[i] = t[i]

\* C40: a job's model calls are made in the order extraction, structuring,
\* simplification; an analysis has returned only if all three calls were
\* made and none failed; when the structuring text does not parse and the
\* other calls succeed the analysis returns with an empty medicines list;
\* when a model call fails the analysis rejects with an error that starts
\* with "Failed to analyze prescription: " and carries no result.
C40_AnalysisPipeline ==
    \A n \in DOMAIN jobs :
       LET j == jobs[n]
       IN  /\ IsPrefix(j.log, ModelCalls)
           /\ Len(j.replies) <= Len(j.log)
           /\ j.stage = "returned"
              => /\ j.log = ModelCalls
                 /\ Len(j.replies) = 3
                 /\ \A i \in 1..3 : j.replies[i] # "error"
                 /\ DOMAIN j.answer = {"extractedText",
                                       "simplifiedExplanation",
                                       "structuredData"}
           /\ Len(j.replies) >= 2 /\ j.replies[2] = "garbage"
              => /\ j.structuredData = [medicines |-> << >>]
                 /\ j.stage \in {"simplification", "returned", "rejected"}
                 /\ j.stage = "rejected"
                    => Len(j.replies) = 3 /\ j.replies[3] = "error"
                 /\ j.stage = "returned"
                    => j.answer.structuredData = [medicines |-> << >>]
           /\ (\E i \in DOMAIN j.replies : j.replies[i] = "error")
              => /\ j.stage = "rejected"
                 /\ DOMAIN j.answer = {"error"}
                 /\ j.answer.error[1] = "Failed to analyze prescription: "

\* an analysis returned although its structuring text did not parse, and
\* another one was rejected because a model call failed
C40_Witness ==
    /\ \E n \in DOMAIN jobs :
          /\ jobs[n].stage = "returned"
          /\ jobs[n].replies[2] = "garbage"
    /\ \E n \in DOMAIN jobs :
          /\ jobs[n].stage = "rejected"
          /\ jobs[n].replies[Len(jobs[n].replies)] = "error"

====
